---- MODULE Spec2Model ----
(***************************************************************************)
(* Verification model of the subtitle dubbing backend                      *)
(* (backearth1/MiniMax_TTS_Translation).                                    *)
(*                                                                         *)
(* Units.  Times and durations are integer milliseconds.  Timestamps are   *)
(* kept on a grid of whole seconds, where SubtitleParser._time_to_seconds  *)
(* and the int(x * 1000) conversions of the callers are exact in binary    *)
(* floating point.  Speeds are kept in tenths (10 is speed 1.0, 20 is      *)
(* speed 2.0), the grid on which round(x, 1) puts them.                    *)
(***************************************************************************)
EXTENDS Integers, Sequences, FiniteSets, TLC

(***************************************************************************)
(* Bounds of the model.                                                    *)
(***************************************************************************)
MaxSegs == 2
MaxTransLen == 2

(***************************************************************************)
(* Program constants.                                                      *)
(***************************************************************************)
max_retries == 4
tts_max_retries == 3
legacy_max_retries == 3
\* Values in the tuple _generate_audio_with_retry returns, and targets of
\* the assignment that receives it in process_subtitle_file.
ReturnArity == 4
UnpackTargets == 2
RequestInterval == 10
MaxSpeed == 20
DefaultSpeed == 10
SpeedStep == 2

(***************************************************************************)
(* Input domains.                                                          *)
(***************************************************************************)
\* Trimmed durations a synthesis call can report, in ms.  None of them
\* puts duration/slot on a rounding tie of round(x, 1).
TtsDurations == {800, 1660}
\* Trace identifiers a synthesis call can return ("" when the header is
\* missing or the service fell back to mock audio).
Traces == {"", "T"}
\* Caller-provided identifiers.
Ids == {"X"}
\* The identifier the modelled batch run is keyed by.
RunId == "X"

VARIABLES
    segments,          \* project.segments: sequence of segment records
    disk,              \* what save_project_to_disk last wrote (<<>> before)
    flags,             \* the three task_cancellation_flags dicts
    coreRef,           \* dict held by api.core.global_state.global_state
    wsRef,             \* dict held by websocket_logs.global_state
    pc,                \* position of the batch worker
    runFlags,          \* dict captured by the run at line 179
    i,                 \* enumerate index of the segment loop (0-based)
    attempt,           \* value handed out by range(max_retries)
    t_srt_ms,
    current_speed,
    translation_optimization_count,
    final,             \* final_audio_data / final_duration_ms / final_trace_id
    stats,             \* the four outcome-bucket lists
    updated_segments,
    result,            \* response of the batch handler
    merged,            \* response of merge_audio_for_project
    calls,             \* history: synthesis calls issued for this segment
    shortens,          \* history: shorten calls issued for this segment
    firstTry,          \* history: what this segment's first synthesis gave
    lastTry,           \* history: what this segment's latest synthesis gave
    lastCall,          \* history: text and speed the latest synthesis call
                       \*   of this segment was given, the duration it
                       \*   reported, whether a shortened text was adopted
                       \*   after it, and the calls without audio so far
    synthFor,          \* history: last segment (0-based) synthesis was
                       \*   called for, -1 before the first call
    allFirstFit,       \* history: every segment so far started at speed 1.0
                       \*   and its first synthesis fitted the slot
    allSingle,         \* history: every segment so far was stored after one
                       \*   synthesis call and no shorten call
    initSegments,      \* history: the project as the run found it
    pending,           \* history: interrupt requested, not yet checked
    seenAt,            \* history: iteration at which the flag was observed
    audio_segments,    \* _build_timeline_audio: the descriptors passed in
    sorted_segments,   \* _build_timeline_audio: sorted by start_time
    final_audio,       \* _build_timeline_audio: the track, as its pieces
    current_time,      \* _build_timeline_audio: the cursor
    tk,                \* _build_timeline_audio: 1-based loop position
    tpc,               \* _build_timeline_audio: position
    tts_pc,            \* generate_audio_with_info: position of one call
    tts_in,            \* generate_audio_with_info: the call's arguments
    retry,             \* generate_audio_with_info: value of range(3)
    tts_result,        \* generate_audio_with_info: the returned dict
    hard_failure,      \* history: the call ended in the fallback after
                       \*   the remote request failed
    now,               \* time.time(), in tenths of a second
    last_request_time, \* TTSService._last_request_time of each handler's
                       \*   own service object
    hpc,               \* position of each request handler
    wake,              \* end of each handler's asyncio.sleep
    lastStart,         \* history: when the latest synthesis request of
                       \*   the process started (-1 before the first)
    tooClose,          \* history: two requests started less than the
                       \*   interval apart
    content,           \* parse_srt: the subtitle_blocks of the input
    ppc,               \* position of the ingestion
    pk,                \* parse_srt: 1-based position in subtitle_blocks
    parsed,            \* parse_srt: the segments list
    ingested,          \* parse_srt_file: index and emotion of the
                       \*   segments it created
    lg_pc,             \* process_subtitle_file: position
    lg_segments,       \* process_subtitle_file: what parse_srt returned,
                       \*   each record as the length of its slot in ms
    lg_t_srt_ms,       \* _generate_audio_with_retry: t_srt_ms
    lg_attempt,        \* _generate_audio_with_retry: value of range(3)
    lg_speed,          \* _generate_audio_with_retry: current_speed
    lg_return,         \* _generate_audio_with_retry: what it returned
    lg_calls,          \* history: synthesis calls of this fitter run
    lg_result,         \* process_subtitle_file: how it ended
    x_pc,              \* batch_translate_project: position
    x_total,           \* batch_translate_project: total_segments
    x_i,               \* batch_translate_project: enumerate index (1-based)
    x_ok,              \* batch_translate_project: successful_translations
    x_result           \* batch_translate_project: how it returned

vars == <<segments, disk, flags, coreRef, wsRef, pc, runFlags, i, attempt,
          t_srt_ms, current_speed, translation_optimization_count, final,
          stats, updated_segments, result, merged, calls, shortens,
          firstTry, lastTry, lastCall, synthFor, allFirstFit, allSingle,
          initSegments,
          pending, seenAt, audio_segments,
          sorted_segments, final_audio, current_time, tk, tpc,
          tts_pc, tts_in, retry, tts_result, hard_failure,
          now, last_request_time, hpc, wake, lastStart, tooClose,
          content, ppc, pk, parsed, ingested,
          lg_pc, lg_segments, lg_t_srt_ms, lg_attempt, lg_speed, lg_return,
          lg_calls, lg_result, x_pc, x_total, x_i, x_ok, x_result>>

timelineVars == <<audio_segments, sorted_segments, final_audio, current_time,
                  tk, tpc>>

serviceVars == <<tts_pc, tts_in, retry, tts_result, hard_failure>>

\* State of the components an action of another component leaves alone.
throttleVars == <<now, last_request_time, hpc, wake, lastStart, tooClose>>

parseVars == <<content, ppc, pk, parsed, ingested>>

legacyVars == <<lg_pc, lg_segments, lg_t_srt_ms, lg_attempt, lg_speed,
                lg_return, lg_calls, lg_result>>

translateVars == <<x_pc, x_total, x_i, x_ok, x_result>>

auxVars == <<serviceVars, throttleVars, parseVars, legacyVars, translateVars>>

projectVars == <<segments, disk, flags, coreRef, wsRef>>

runVars == <<pc, runFlags, i, attempt, t_srt_ms, current_speed,
             translation_optimization_count, final, stats,
             updated_segments, result>>

histVars == <<calls, shortens, firstTry, lastTry, lastCall, synthFor,
              allFirstFit,
              allSingle, initSegments, pending, seenAt>>

(***************************************************************************)
(* Helpers.                                                                *)
(***************************************************************************)
Min(a, b) == IF a <= b THEN a ELSE b

Max(a, b) == IF a >= b THEN a ELSE b

RECURSIVE SumSeq(_)
SumSeq(s) == IF s = <<>> THEN 0 ELSE Head(s) + SumSeq(Tail(s))

\* Sequences over S of length 0..n.
SeqsUpTo(S, n) == UNION {[1..k -> S] : k \in 0..n}

(***************************************************************************)
(* SubtitleSegment.                                                        *)
(***************************************************************************)
\* A new segment: no audio, duration 0, no trace, no translation.
SubtitleSegment(id, index, start, end, ok, speed) ==
    [id |-> id, index |-> index, start_time |-> start, end_time |-> end,
     time_ok |-> ok, speed |-> speed, translated_text |-> 0,
     audio_data |-> "none", audio_duration |-> 0, trace_id |-> "None"]

\* What to_dict writes of a segment (the audio bytes are not persisted).
SegmentToDict(s) ==
    [id |-> s.id, index |-> s.index, start_time |-> s.start_time,
     end_time |-> s.end_time, speed |-> s.speed,
     has_audio |-> (s.audio_data # "none"),
     audio_duration |-> s.audio_duration, trace_id |-> s.trace_id,
     translated_text |-> s.translated_text]

ToFullDict(segs) == [k \in 1..Len(segs) |-> SegmentToDict(segs[k])]

\* round(x, 1) of the value num/den tenths: nearest tenth, ties to even.
RoundTenths(num, den) ==
    LET q == num \div den
        r == num % den
    IN  IF 2 * r < den THEN q
        ELSE IF 2 * r > den THEN q + 1
        ELSE IF q % 2 = 0 THEN q ELSE q + 1

\* duration_ratio <= 1.0, with the ratio forced to 0 when t_srt_ms <= 0.
RatioOk(t_tts, t_srt) == IF t_srt > 0 THEN t_tts <= t_srt ELSE TRUE

\* round(min(duration_ratio + add/10, 2.0), 1), in tenths.
SpeedFromRatio(t_tts, t_srt, add) ==
    IF 10 * t_tts + add * t_srt >= MaxSpeed * t_srt
    THEN MaxSpeed
    ELSE RoundTenths(10 * t_tts + add * t_srt, t_srt)

\* The speed the escalation branch picks for the failed attempt a.
EscalatedSpeed(a, t_tts, t_srt) ==
    IF a = 0 THEN SpeedFromRatio(t_tts, t_srt, 0)
    ELSE IF a = 1 THEN SpeedFromRatio(t_tts, t_srt, 2)
    ELSE IF a = 2 THEN SpeedFromRatio(t_tts, t_srt, 4)
    ELSE MaxSpeed

NoLastCall == [text |-> 0, speed |-> DefaultSpeed, dur |-> 0,
               adopted |-> FALSE, fails |-> 0]

NoFinal == [audio |-> "none", duration |-> 0, trace |-> ""]

NoStats == [translation_optimized |-> <<>>, speed_optimized |-> <<>>,
            failed_silent |-> <<>>, normal |-> <<>>]

NoResult == [status |-> 0]

(***************************************************************************)
(* The project a batch run finds: segments laid end to end on the          *)
(* timeline, as ingestion of a contiguous subtitle file leaves them.       *)
(***************************************************************************)
SegKinds ==
    {[len |-> 1000, trans |-> 0, speed |-> DefaultSpeed, ok |-> TRUE],
     [len |-> 1000, trans |-> MaxTransLen, speed |-> DefaultSpeed, ok |-> TRUE],
     [len |-> 1000, trans |-> 0, speed |-> MaxSpeed, ok |-> TRUE],
     [len |-> 1000, trans |-> 0, speed |-> DefaultSpeed, ok |-> FALSE]}

RECURSIVE StartOf(_, _)
StartOf(kinds, k) == IF k <= 1 THEN 0 ELSE StartOf(kinds, k - 1) + kinds[k - 1].len

ProjectOf(kinds) ==
    [k \in 1..Len(kinds) |->
        [SubtitleSegment(k, k, StartOf(kinds, k),
                         StartOf(kinds, k) + kinds[k].len,
                         kinds[k].ok, kinds[k].speed)
            EXCEPT !.translated_text = kinds[k].trans]]

InitCommon ==
    /\ disk = <<>>
    /\ flags = [d \in {"core", "ws", "main"} |-> {}]
    /\ coreRef = "core"
    /\ wsRef = "ws"
    /\ pc = "idle"
    /\ runFlags = "core"
    /\ i = 0
    /\ attempt = 0
    /\ t_srt_ms = 0
    /\ current_speed = DefaultSpeed
    /\ translation_optimization_count = 0
    /\ final = NoFinal
    /\ stats = NoStats
    /\ updated_segments = <<>>
    /\ result = NoResult
    /\ merged = NoResult
    /\ calls = 0
    /\ shortens = 0
    /\ firstTry = "none"
    /\ lastTry = "none"
    /\ lastCall = NoLastCall
    /\ synthFor = -1
    /\ allFirstFit = TRUE
    /\ allSingle = TRUE
    /\ initSegments = segments
    /\ pending = FALSE
    /\ seenAt = -1

NoCall == [text_len |-> 0, speed |-> DefaultSpeed, credentials |-> FALSE]

NoTtsResult == [audio_data |-> "None", duration_ms |-> 0, trace_id |-> ""]

ServiceIdle ==
    /\ tts_pc = "idle"
    /\ tts_in = NoCall
    /\ retry = 0
    /\ tts_result = NoTtsResult
    /\ hard_failure = FALSE

\* The handlers that synthesize: each creates its own TTSService.
Handlers == {1, 2}

\* The clock starts one interval after 0, the value a new service object
\* holds as its last request time.
ThrottleIdle ==
    /\ now = RequestInterval
    /\ last_request_time = [h \in Handlers |-> 0]
    /\ hpc = [h \in Handlers |-> "idle"]
    /\ wake = [h \in Handlers |-> 0]
    /\ lastStart = -1
    /\ tooClose = FALSE

ParseIdle ==
    /\ content = <<>>
    /\ ppc = "off"
    /\ pk = 1
    /\ parsed = <<>>
    /\ ingested = <<>>

NoReturn == [audio |-> "pending", duration |-> 0, speed |-> DefaultSpeed]

NoOutcome == [outcome |-> "none", segments_count |-> 0]

LegacyIdle ==
    /\ lg_pc = "off"
    /\ lg_segments = <<>>
    /\ lg_t_srt_ms = 0
    /\ lg_attempt = 0
    /\ lg_speed = DefaultSpeed
    /\ lg_return = NoReturn
    /\ lg_calls = 0
    /\ lg_result = NoOutcome

TranslateIdle ==
    /\ x_pc = "idle"
    /\ x_total = 0
    /\ x_i = 1
    /\ x_ok = 0
    /\ x_result = "none"

AuxIdle ==
    ServiceIdle /\ ThrottleIdle /\ ParseIdle /\ LegacyIdle /\ TranslateIdle

TimelineIdle ==
    /\ audio_segments = <<>>
    /\ sorted_segments = <<>>
    /\ final_audio = <<>>
    /\ current_time = 0
    /\ tk = 1
    /\ tpc = "off"

Init ==
    /\ \E kinds \in SeqsUpTo(SegKinds, MaxSegs) : segments = ProjectOf(kinds)
    /\ InitCommon
    /\ AuxIdle
    /\ TimelineIdle

(***************************************************************************)
(* Cancellation state: GlobalState / GlobalStateManager.                   *)
(***************************************************************************)
\* api/core/global_state.py: set_global_state injects main.py's dicts.
CoreSetGlobalState ==
    /\ pc = "idle"
    /\ coreRef = "core"
    /\ coreRef' = "main"
    /\ UNCHANGED <<segments, disk, flags, wsRef, runVars, merged, histVars>>
    /\ UNCHANGED <<timelineVars, auxVars>>

\* api/routes/websocket_logs.py: the same injection for the interrupt route.
WsSetGlobalState ==
    /\ pc = "idle"
    /\ wsRef = "ws"
    /\ wsRef' = "main"
    /\ UNCHANGED <<segments, disk, flags, coreRef, runVars, merged, histVars>>
    /\ UNCHANGED <<timelineVars, auxVars>>

\* task_cancellation_flags.get(id, False) on the dict d.
FlagGet(d, id) == id \in flags[d]

FlagSet(d, id, v) ==
    [flags EXCEPT ![d] = IF v THEN @ \cup {id} ELSE @ \ {id}]

\* The run still has a segment iteration to start.
IterationsLeft == pc \in {"loop", "fit", "store"} /\
                  (IF pc = "loop" THEN i ELSE i + 1) < Len(segments)

\* POST /api/interrupt/{client_id}.  running_tasks is never filled, so the
\* task.cancel() branch is not taken.
InterruptSetsFlag(d, id) == FlagSet(d, id, TRUE)

interrupt_task ==
    \E id \in Ids :
        /\ pc # "done"
        /\ flags' = InterruptSetsFlag(wsRef, id)
        /\ pending' = (pending \/ (id = RunId /\ IterationsLeft))
        /\ UNCHANGED <<segments, disk, coreRef, wsRef, runVars, merged,
                       calls, shortens, firstTry, lastTry, lastCall, synthFor,
                       allFirstFit, allSingle, initSegments, seenAt>>
    /\ UNCHANGED <<timelineVars, auxVars>>

(***************************************************************************)
(* batch_generate_tts_for_project.                                         *)
(***************************************************************************)
\* Handler entry up to the segment loop: the flag of the run's identifier
\* is cleared in the dict the handler captures.
BatchStart ==
    /\ pc = "idle"
    /\ runFlags' = coreRef
    /\ flags' = FlagSet(coreRef, RunId, FALSE)
    /\ pc' = "loop"
    /\ i' = 0
    /\ stats' = NoStats
    /\ updated_segments' = <<>>
    /\ result' = NoResult
    /\ initSegments' = segments
    /\ UNCHANGED <<segments, disk, coreRef, wsRef, attempt, t_srt_ms,
                   current_speed, translation_optimization_count, final,
                   merged, calls, shortens, firstTry, lastTry, lastCall, synthFor,
                   allFirstFit, allSingle, pending, seenAt>>
    /\ UNCHANGED <<timelineVars, auxVars>>

Statistics(total, failed) ==
    [total_segments |-> total,
     successful_segments |-> Len(updated_segments),
     failed_segments |-> failed,
     translation_optimized_segments |-> Len(stats.translation_optimized),
     speed_optimized_segments |-> Len(stats.speed_optimized),
     failed_silent_segments |-> Len(stats.failed_silent),
     normal_segments |-> Len(stats.normal)]

\* The run reads the flag at the top of an iteration.
CancellationObserved == FlagGet(runFlags, RunId)

\* Variant: the completed work is dropped from the response.
InterruptResultEmpty ==
    [status |-> 200, success |-> TRUE, interrupted |-> TRUE,
     updated_segments |-> <<>>,
     statistics |-> Statistics(Len(segments), i)]

\* The partial-success response of an interrupted run.
InterruptResult ==
    [status |-> 200, success |-> TRUE, interrupted |-> TRUE,
     updated_segments |-> updated_segments,
     statistics |-> Statistics(Len(segments), i - Len(updated_segments))]

\* Top of iteration i with the flag set: save, return the partial result.
Interrupted ==
    /\ pc = "loop"
    /\ i < Len(segments)
    /\ CancellationObserved
    /\ disk' = ToFullDict(segments)
    /\ result' = InterruptResult
    /\ pc' = "done"
    /\ seenAt' = i
    /\ pending' = FALSE
    /\ UNCHANGED <<segments, flags, coreRef, wsRef, runFlags, i, attempt,
                   t_srt_ms, current_speed, translation_optimization_count,
                   final, stats, updated_segments, merged, calls, shortens,
                   firstTry, lastTry, lastCall, synthFor, allFirstFit, allSingle,
                   initSegments>>
    /\ UNCHANGED <<timelineVars, auxVars>>

\* int((end_seconds - start_seconds) * 1000)
TSrtMs(s) == s.end_time - s.start_time

\* Top of iteration i, flag clear: the retry loop of the segment is set up.
SegmentBegin ==
    /\ pc = "loop"
    /\ i < Len(segments)
    /\ ~CancellationObserved
    /\ segments[i + 1].time_ok
    /\ t_srt_ms' = TSrtMs(segments[i + 1])
    /\ current_speed' = segments[i + 1].speed
    /\ final' = NoFinal
    /\ translation_optimization_count' = 0
    /\ attempt' = 0
    /\ pc' = "fit"
    /\ pending' = FALSE
    /\ calls' = 0
    /\ shortens' = 0
    /\ firstTry' = "none"
    /\ lastTry' = "none"
    /\ lastCall' = NoLastCall
    /\ UNCHANGED <<segments, disk, flags, coreRef, wsRef, runFlags, i, stats,
                   updated_segments, result, merged, synthFor, allFirstFit,
                   allSingle, initSegments, seenAt>>
    /\ UNCHANGED <<timelineVars, auxVars>>

\* Top of iteration i, flag clear, _time_to_seconds raises on a malformed
\* timestamp: the except clause logs and continues with the next segment.
SegmentRaises ==
    /\ pc = "loop"
    /\ i < Len(segments)
    /\ ~CancellationObserved
    /\ ~segments[i + 1].time_ok
    /\ i' = i + 1
    /\ pending' = FALSE
    /\ UNCHANGED <<segments, disk, flags, coreRef, wsRef, pc, runFlags,
                   attempt, t_srt_ms, current_speed,
                   translation_optimization_count, final, stats,
                   updated_segments, result, merged, calls, shortens,
                   firstTry, lastTry, lastCall, synthFor, initSegments, seenAt>>
    /\ allFirstFit' = FALSE
    /\ allSingle' = FALSE
    /\ UNCHANGED <<timelineVars, auxVars>>

(***************************************************************************)
(* The retry loop of one segment: for attempt in range(max_retries).       *)
(* Every action below is one pass through the loop body: one call of       *)
(* generate_audio_with_info and the branch that handles its result.        *)
(***************************************************************************)
Seg == segments[i + 1]

\* Variant: every segment is taken to carry a translation.
IsUsingTranslationAlways == TRUE

\* is_using_translation = bool(segment.translated_text)
IsUsingTranslation == Seg.translated_text > 0

\* History bookkeeping of a synthesis call for the current segment.
NoteSynth(kind) ==
    /\ calls' = calls + 1
    /\ firstTry' = (IF calls = 0 THEN kind ELSE firstTry)
    /\ lastTry' = kind
    /\ synthFor' = i

\* History bookkeeping of the call's arguments (text_to_use as the length
\* of the translation, 0 for the source text; speed = current_speed) and
\* of what came of it.
NoteCall(d, failed, adopted) ==
    lastCall' = [text |-> Seg.translated_text, speed |-> current_speed,
                 dur |-> d, adopted |-> adopted,
                 fails |-> lastCall.fails + (IF failed THEN 1 ELSE 0)]

\* What the first synthesis of a segment delivered.
TryKind(d) == IF d <= t_srt_ms THEN "fit" ELSE "long"

\* Variant: the range is one value longer.
RangeExhaustedLate(a) == a >= max_retries

\* `continue`: the for statement takes the next value of range(max_retries)
\* whatever the body assigned to attempt, and falls out of the loop when the
\* range is used up.
RangeExhausted(a) == a + 1 >= max_retries

Continue ==
    IF RangeExhausted(attempt)
    THEN attempt' = attempt /\ pc' = "store"
    ELSE attempt' = attempt + 1 /\ pc' = "fit"

\* Variant: the loop is left with nothing selected.
BreakSelectsNothing(audio, duration, trace) ==
    /\ final' = final
    /\ pc' = "store"
    /\ attempt' = attempt

\* `break` with the final values chosen.
Break(audio, duration, trace) ==
    /\ final' = [audio |-> audio, duration |-> duration, trace |-> trace]
    /\ pc' = "store"
    /\ attempt' = attempt

fitFrame == <<disk, flags, coreRef, wsRef, runFlags, i, t_srt_ms, stats,
              updated_segments, result, merged, allFirstFit, allSingle,
              initSegments, pending, seenAt, timelineVars, auxVars>>

\* Variant: the duration is left at its initial value.
SilenceDurationUnset == NoFinal.duration

\* Duration recorded with the silence placeholder.
SilenceDuration == t_srt_ms

\* audio_data is None: retry with the same parameters, or give up with the
\* silence placeholder on the last attempt.
SynthDownloadFailed(TR) ==
    /\ pc = "fit"
    /\ \E tr \in TR :
        IF attempt < max_retries - 1
        THEN Continue /\ final' = final
        ELSE Break("silence", SilenceDuration, tr)
    /\ NoteSynth("fail")
    /\ NoteCall(0, TRUE, FALSE)
    /\ UNCHANGED <<segments, current_speed, translation_optimization_count,
                   shortens>>
    /\ UNCHANGED fitFrame

\* duration_ratio <= 1.0: success with this audio.
SynthFits(TR) ==
    /\ pc = "fit"
    /\ \E d \in TtsDurations, tr \in TR :
        /\ RatioOk(d, t_srt_ms)
        /\ Break("real", d, tr)
        /\ NoteSynth(TryKind(d))
        /\ NoteCall(d, FALSE, FALSE)
    /\ UNCHANGED <<segments, current_speed, translation_optimization_count,
                   shortens>>
    /\ UNCHANGED fitFrame

\* Results of optimize_translation_for_audio_length: 0 is None or empty
\* text, otherwise the length of the returned text.
ShortenResults == 0..(MaxTransLen + 1)

\* Variant: any returned text is adopted.
AdoptedAny(opt, cur) == opt > 0

\* The returned text is adopted when it is strictly shorter.
Adopted(opt, cur) == opt > 0 /\ opt < cur

\* Too long, attempts left, shortening not used yet, segment has a
\* translation: shorten once, then retry at the same speed (adopted) or at
\* the speed the ratio gives (not shorter, or no result).
SynthTooLongShorten(TR) ==
    /\ pc = "fit"
    /\ attempt < max_retries - 1
    /\ translation_optimization_count < 1
    /\ IsUsingTranslation
    /\ \E d \in TtsDurations, tr \in TR, opt \in ShortenResults :
        /\ ~RatioOk(d, t_srt_ms)
        /\ NoteSynth(TryKind(d))
        /\ NoteCall(d, FALSE, Adopted(opt, Seg.translated_text))
        /\ IF Adopted(opt, Seg.translated_text)
           THEN /\ segments' = [segments EXCEPT ![i + 1].translated_text = opt]
                /\ current_speed' = current_speed
           ELSE /\ segments' = segments
                /\ current_speed' = SpeedFromRatio(d, t_srt_ms, 0)
    /\ translation_optimization_count' = translation_optimization_count + 1
    /\ shortens' = shortens + 1
    /\ Continue
    /\ final' = final
    /\ UNCHANGED fitFrame

\* Too long, attempts left, shortening not used yet, no translation: the
\* ratio becomes the speed; the shortening counter stays 0.
SynthTooLongNoTranslation(TR) ==
    /\ pc = "fit"
    /\ attempt < max_retries - 1
    /\ translation_optimization_count < 1
    /\ ~IsUsingTranslation
    /\ \E d \in TtsDurations, tr \in TR :
        /\ ~RatioOk(d, t_srt_ms)
        /\ NoteSynth(TryKind(d))
        /\ NoteCall(d, FALSE, FALSE)
        /\ current_speed' = SpeedFromRatio(d, t_srt_ms, 0)
    /\ Continue
    /\ final' = final
    /\ UNCHANGED <<segments, translation_optimization_count, shortens>>
    /\ UNCHANGED fitFrame

\* Too long, attempts left, shortening already used: speed by attempt number.
SynthTooLongEscalate(TR) ==
    /\ pc = "fit"
    /\ attempt < max_retries - 1
    /\ translation_optimization_count >= 1
    /\ \E d \in TtsDurations, tr \in TR :
        /\ ~RatioOk(d, t_srt_ms)
        /\ NoteSynth(TryKind(d))
        /\ NoteCall(d, FALSE, FALSE)
        /\ current_speed' = EscalatedSpeed(attempt, d, t_srt_ms)
    /\ Continue
    /\ final' = final
    /\ UNCHANGED <<segments, translation_optimization_count, shortens>>
    /\ UNCHANGED fitFrame

\* Too long on the last attempt: the silence placeholder when the speed is
\* at 2.0; otherwise the speed is raised by 0.2 and `continue` is executed,
\* which ends the loop with nothing selected.
SynthTooLongLast(TR) ==
    /\ pc = "fit"
    /\ attempt >= max_retries - 1
    /\ \E d \in TtsDurations, tr \in TR :
        /\ ~RatioOk(d, t_srt_ms)
        /\ NoteSynth(TryKind(d))
        /\ NoteCall(d, FALSE, FALSE)
        /\ IF current_speed >= MaxSpeed
           THEN /\ Break("silence", SilenceDuration, tr)
                /\ current_speed' = current_speed
           ELSE /\ current_speed' = Min(current_speed + SpeedStep, MaxSpeed)
                /\ Continue
                /\ final' = final
    /\ UNCHANGED <<segments, translation_optimization_count, shortens>>
    /\ UNCHANGED fitFrame

\* Variant: the speed test admits the default speed.
BucketSpeedInclusive(audio, toc, speed) ==
    IF audio = "silence" THEN "failed_silent"
    ELSE IF toc > 0 THEN "translation_optimized"
    ELSE IF speed >= DefaultSpeed THEN "speed_optimized"
    ELSE "normal"

\* The outcome bucket of the segment just fitted (1-based position i+1).
Bucket(audio, toc, speed) ==
    IF audio = "silence" THEN "failed_silent"
    ELSE IF toc > 0 THEN "translation_optimized"
    ELSE IF speed > DefaultSpeed THEN "speed_optimized"
    ELSE "normal"

\* After the loop: the segment and the run's lists take the final values.
SegmentStore ==
    /\ pc = "store"
    /\ segments' = [segments EXCEPT ![i + 1] =
            [@ EXCEPT !.audio_data = final.audio,
                      !.audio_duration = final.duration,
                      !.trace_id = final.trace,
                      !.speed = current_speed]]
    /\ LET b == Bucket(final.audio, translation_optimization_count,
                       current_speed)
       IN  stats' = [stats EXCEPT ![b] = Append(@, i + 1)]
    /\ updated_segments' = Append(updated_segments,
            [segment_id |-> Seg.id, trace_id |-> final.trace,
             has_url |-> (final.audio = "real"),
             duration_ms |-> final.duration, final_speed |-> current_speed])
    /\ i' = i + 1
    /\ pc' = "loop"
    /\ allFirstFit' = (allFirstFit /\ firstTry = "fit"
                        /\ initSegments[i + 1].speed = DefaultSpeed)
    /\ allSingle' = (allSingle /\ calls = 1 /\ shortens = 0)
    /\ lastCall' = NoLastCall
    /\ UNCHANGED <<disk, flags, coreRef, wsRef, runFlags, attempt, t_srt_ms,
                   current_speed, translation_optimization_count, final,
                   result, merged, calls, shortens, firstTry, lastTry,
                   synthFor, initSegments, pending, seenAt>>
    /\ UNCHANGED <<timelineVars, auxVars>>

\* After the segment loop: the summary.  The success rate divides by
\* total_segments, so an empty project ends in the handler's except clause
\* (HTTP 500) before the project is saved.
Summarize ==
    /\ pc = "loop"
    /\ i >= Len(segments)
    /\ IF Len(segments) = 0
       THEN /\ result' = [status |-> 500]
            /\ disk' = disk
       ELSE /\ disk' = ToFullDict(segments)
            /\ result' = [status |-> 200, success |-> TRUE,
                          interrupted |-> FALSE,
                          updated_segments |-> updated_segments,
                          statistics |->
                              Statistics(Len(segments),
                                         Len(segments) - Len(updated_segments))]
    /\ pc' = "done"
    /\ UNCHANGED <<segments, flags, coreRef, wsRef, runFlags, i, attempt,
                   t_srt_ms, current_speed, translation_optimization_count,
                   final, stats, updated_segments, merged, histVars>>
    /\ UNCHANGED <<timelineVars, auxVars>>


(***************************************************************************)
(* AudioProcessor._build_timeline_audio.                                   *)
(*                                                                         *)
(* A descriptor is [start_time, end_time, audio, len]: audio is "real" (a  *)
(* clip that decodes to len ms), "bad" (bytes that do not decode) or       *)
(* "silence" (the placeholder).  The track is kept as the sequence of the  *)
(* pieces appended to it; a piece is [kind, ms, of], `of` being the        *)
(* position of its descriptor in start order.                              *)
(***************************************************************************)
\* sorted(audio_segments, key=start_time): stable insertion sort.
RECURSIVE InsertByStart(_, _)
InsertByStart(d, s) ==
    IF s = <<>> THEN <<d>>
    ELSE IF s[Len(s)].start_time <= d.start_time THEN Append(s, d)
    ELSE Append(InsertByStart(d, SubSeq(s, 1, Len(s) - 1)), s[Len(s)])

RECURSIVE SortByStart(_)
SortByStart(s) ==
    IF s = <<>> THEN <<>>
    ELSE InsertByStart(s[Len(s)], SortByStart(SubSeq(s, 1, Len(s) - 1)))

\* len(AudioSegment.silent(duration=d)): nothing for a negative duration.
SilentLen(d) == Max(d, 0)

\* len(segment_audio[:required]) for a clip of `actual` ms; a negative stop
\* counts from the end of the clip.
SliceLen(actual, required) ==
    IF required >= 0 THEN Min(actual, required)
    ELSE IF actual + required >= 0 THEN actual + required
    ELSE Max(0, 2 * actual + required)

Piece(kind, ms, of) == [kind |-> kind, ms |-> ms, of |-> of]

\* Pieces of positive length only: appending an empty AudioSegment leaves
\* the track as it is.
AddPiece(track, kind, ms, of) ==
    IF ms > 0 THEN Append(track, Piece(kind, ms, of)) ELSE track

\* Variant: no silence in front of a descriptor.
GapLenNone(start, cur) == 0

\* The silence that closes the gap in front of a descriptor.
GapLen(start, cur) == IF start > cur THEN start - cur ELSE 0

\* Variant: a long clip is not cut.
ClipPartWhole(actual, required) == actual

\* What the slot of a real clip receives: the clip cut to the slot, or the
\* whole clip followed by padding.
ClipPart(actual, required) ==
    IF actual > required THEN SliceLen(actual, required) ELSE actual

\* Variant: a short clip is not padded.
PadPartNone(actual, required) == 0

PadPart(actual, required) ==
    IF actual < required THEN SilentLen(required - actual) ELSE 0

\* One pass of the for loop: descriptor d, the k-th in start order, is
\* placed on the track tr whose cursor stands at cur.
PlaceSegment(tr, cur, d, k) ==
    LET gap == GapLen(d.start_time, cur)
        t1 == AddPiece(tr, "gap", SilentLen(gap), k)
        required == d.end_time - d.start_time
    IN  IF d.audio = "silence"
        THEN AddPiece(t1, "silence", SilentLen(required), k)
        ELSE IF d.audio = "bad"
        THEN AddPiece(t1, "error", SilentLen(required), k)
        ELSE AddPiece(AddPiece(t1, "clip", ClipPart(d.len, required), k),
                      "pad", PadPart(d.len, required), k)

RECURSIVE TrackLen(_)
TrackLen(tr) == IF tr = <<>> THEN 0 ELSE tr[1].ms + TrackLen(Tail(tr))

\* The whole function: the track after all descriptors are placed.
RECURSIVE PlaceAll(_, _, _, _)
PlaceAll(tr, cur, ds, k) ==
    IF k > Len(ds) THEN tr
    ELSE PlaceAll(PlaceSegment(tr, cur, ds[k], k), ds[k].end_time, ds, k + 1)

BuildTimelineAudio(ds) == PlaceAll(<<>>, 0, SortByStart(ds), 1)

(***************************************************************************)
(* The same function step by step, on descriptor lists drawn at the start. *)
(***************************************************************************)
timelineFrame == <<projectVars, runVars, merged, histVars, auxVars>>

\* Entry: sort, empty track, cursor 0.
TimelineStart ==
    /\ tpc = "start"
    /\ sorted_segments' = SortByStart(audio_segments)
    /\ final_audio' = <<>>
    /\ current_time' = 0
    /\ tk' = 1
    /\ tpc' = "place"
    /\ UNCHANGED audio_segments
    /\ UNCHANGED timelineFrame

TimelinePlace(kind) ==
    /\ tpc = "place"
    /\ tk <= Len(sorted_segments)
    /\ sorted_segments[tk].audio = kind
    /\ final_audio' = PlaceSegment(final_audio, current_time,
                                   sorted_segments[tk], tk)
    /\ current_time' = sorted_segments[tk].end_time
    /\ tk' = tk + 1
    /\ UNCHANGED <<audio_segments, sorted_segments, tpc>>
    /\ UNCHANGED timelineFrame

\* The descriptor carries the silence placeholder.
TimelineSilence == TimelinePlace("silence")

\* The descriptor carries a clip that decodes.
TimelineClip == TimelinePlace("real")

\* Variant: a decode error ends the assembly with the track as it is.
TimelineDecodeErrorAborts ==
    /\ tpc = "place"
    /\ tk <= Len(sorted_segments)
    /\ sorted_segments[tk].audio = "bad"
    /\ tpc' = "exported"
    /\ UNCHANGED <<audio_segments, sorted_segments, final_audio,
                   current_time, tk>>
    /\ UNCHANGED timelineFrame

\* The descriptor carries bytes that do not decode: the except clause.
TimelineDecodeError == TimelinePlace("bad")

\* After the loop: export.
TimelineExport ==
    /\ tpc = "place"
    /\ tk > Len(sorted_segments)
    /\ tpc' = "exported"
    /\ UNCHANGED <<audio_segments, sorted_segments, final_audio,
                   current_time, tk>>
    /\ UNCHANGED timelineFrame

(***************************************************************************)
(* merge_audio_for_project.                                                *)
(***************************************************************************)
\* seg.audio_data and seg.audio_data != b'silence_placeholder'
HasRealAudio(seg) == seg.audio_data = "real"

\* The segments that are handed to the assembler.
MergeKeeps(seg) == HasRealAudio(seg)

RECURSIVE MergeDescriptors(_)
MergeDescriptors(segs) ==
    IF segs = <<>> THEN <<>>
    ELSE LET rest == MergeDescriptors(Tail(segs))
             seg == Head(segs)
         IN  IF MergeKeeps(seg)
             THEN <<[start_time |-> seg.start_time, end_time |-> seg.end_time,
                     audio |-> seg.audio_data,
                     len |-> seg.audio_duration]>> \o rest
             ELSE rest

\* The handler: 400 without real audio, 500 when a timestamp of a kept
\* segment does not parse, otherwise the assembled track.
merge_audio_for_project ==
    /\ pc \in {"idle", "done"}
    /\ merged' =
        IF \A k \in 1..Len(segments) : ~HasRealAudio(segments[k])
        THEN [status |-> 400]
        ELSE IF \E k \in 1..Len(segments) :
                    MergeKeeps(segments[k]) /\ ~segments[k].time_ok
        THEN [status |-> 500]
        ELSE LET ds == MergeDescriptors(segments)
             IN  [status |-> 200, segments_count |-> Len(ds),
                  track_ms |-> TrackLen(BuildTimelineAudio(ds))]
    /\ UNCHANGED <<projectVars, runVars, histVars, timelineVars, auxVars>>

(***************************************************************************)
(* Specifications.                                                         *)
(***************************************************************************)
\* A batch run on a project that nobody interrupts.
Next ==
    \/ BatchStart
    \/ SegmentBegin
    \/ SegmentRaises
    \/ SynthDownloadFailed(Traces)
    \/ SynthFits(Traces)
    \/ SynthTooLongShorten(Traces)
    \/ SynthTooLongNoTranslation(Traces)
    \/ SynthTooLongEscalate(Traces)
    \/ SynthTooLongLast(Traces)
    \/ SegmentStore
    \/ Summarize

Spec == Init /\ [][Next]_vars

\* A batch run followed by merges of the project, with one trace value.
MergeTraces == {"T"}

NextMerge ==
    \/ BatchStart
    \/ SegmentBegin
    \/ SegmentRaises
    \/ SynthDownloadFailed(MergeTraces)
    \/ SynthFits(MergeTraces)
    \/ SynthTooLongShorten(MergeTraces)
    \/ SynthTooLongNoTranslation(MergeTraces)
    \/ SynthTooLongEscalate(MergeTraces)
    \/ SynthTooLongLast(MergeTraces)
    \/ SegmentStore
    \/ Summarize
    \/ merge_audio_for_project

SpecMerge == Init /\ [][NextMerge]_vars

\* A batch run with the interrupt endpoint and the injection of the shared
\* dictionaries.
CancelKinds == {kd \in SegKinds : kd.speed = DefaultSpeed}
CancelTraces == {"T"}

InitCancel ==
    /\ \E kinds \in SeqsUpTo(CancelKinds, MaxSegs) :
            segments = ProjectOf(kinds)
    /\ InitCommon
    /\ AuxIdle
    /\ TimelineIdle

NextCancel ==
    \/ CoreSetGlobalState
    \/ WsSetGlobalState
    \/ interrupt_task
    \/ BatchStart
    \/ Interrupted
    \/ SegmentBegin
    \/ SegmentRaises
    \/ SynthDownloadFailed(CancelTraces)
    \/ SynthFits(CancelTraces)
    \/ SynthTooLongShorten(CancelTraces)
    \/ SynthTooLongNoTranslation(CancelTraces)
    \/ SynthTooLongEscalate(CancelTraces)
    \/ SynthTooLongLast(CancelTraces)
    \/ SegmentStore
    \/ Summarize

SpecCancel == InitCancel /\ [][NextCancel]_vars

\* The assembler on descriptor lists.
MaxDescs == 2
TimeGrid == {0, 500, 1000, 1500, 2000}
ClipLens == {500, 1000, 1200}

Descriptors ==
    {[start_time |-> a, end_time |-> b, audio |-> "silence", len |-> 0] :
        a \in TimeGrid, b \in TimeGrid}
    \cup {[start_time |-> a, end_time |-> b, audio |-> "bad", len |-> 0] :
        a \in TimeGrid, b \in TimeGrid}
    \cup UNION {{[start_time |-> a, end_time |-> b, audio |-> "real",
                  len |-> n] : a \in TimeGrid, b \in TimeGrid} :
                n \in ClipLens}

WellFormed(d) == d.start_time <= d.end_time

InitTimeline ==
    /\ segments = <<>>
    /\ InitCommon
    /\ AuxIdle
    /\ \E ds \in SeqsUpTo({d \in Descriptors : WellFormed(d)}, MaxDescs) :
        audio_segments = ds
    /\ sorted_segments = <<>>
    /\ final_audio = <<>>
    /\ current_time = 0
    /\ tk = 1
    /\ tpc = "start"

NextTimeline ==
    \/ TimelineStart
    \/ TimelineSilence
    \/ TimelineClip
    \/ TimelineDecodeError
    \/ TimelineExport

SpecTimeline == InitTimeline /\ [][NextTimeline]_vars

(***************************************************************************)
(* Editing a project: the segment routes of subtitle_management.py over    *)
(* SubtitleProject, starting from an ingested subtitle file.               *)
(***************************************************************************)
MaxEditSegs == 1

\* Values a client sends.  The routes check neither range nor type.
EditSpeeds == {5, 10, 30}
EditTranslations == {0, 1}
EditStarts == {0, 1000}
EntryLens == {1000}
NoIndex == -1

\* Variant: the segments keep the index they carry.
reindex_segmentsNone(segs) == segs

reindex_segments(segs) ==
    [k \in 1..Len(segs) |-> [segs[k] EXCEPT !.index = k]]

\* uuid4: an identifier no segment of the project carries (the least free
\* one, which keeps the identifiers within 1..Len(segs)+1).
FreshId(segs) ==
    LET used == {segs[k].id : k \in 1..Len(segs)}
        free == (1..(Len(segs) + 1)) \ used
    IN  CHOOSE n \in free : \A m \in free : n <= m

\* SubtitleProject.add_segment: list.insert at the given position when it
\* is within the list, append otherwise, then renumber.
add_segment(segs, s, insert_after_index) ==
    reindex_segments(
        IF insert_after_index # NoIndex /\ insert_after_index <= Len(segs)
        THEN SubSeq(segs, 1, insert_after_index) \o <<s>>
             \o SubSeq(segs, insert_after_index + 1, Len(segs))
        ELSE Append(segs, s))

\* SubtitleProject.remove_segment.
remove_segment(segs, id) ==
    reindex_segments(SelectSeq(segs, LAMBDA s : s.id # id))

\* SubtitleProject.update_segment: setattr of each given key.
update_segment(segs, id, key, value) ==
    [k \in 1..Len(segs) |->
        IF segs[k].id = id THEN [segs[k] EXCEPT ![key] = value] ELSE segs[k]]

\* SubtitleManager.parse_srt_file on n parsed entries of one length laid
\* end to end:
\* every segment is created with speed 1.0 and appended.
RECURSIVE parse_srt_file(_, _)
parse_srt_file(n, len) ==
    IF n = 0 THEN <<>>
    ELSE add_segment(parse_srt_file(n - 1, len),
                     SubtitleSegment(n, n, (n - 1) * len, n * len,
                                     TRUE, DefaultSpeed),
                     NoIndex)

editFrame == <<disk, flags, coreRef, wsRef, runVars, merged, histVars>>

\* POST /api/subtitle/{project_id}/segment, for projects of up to max
\* segments and the given values of speed and start_time.
AddSegmentRoute(max, speeds, starts) ==
    /\ pc = "idle"
    /\ Len(segments) < max
    /\ \E speed \in speeds, start \in starts, len \in EntryLens,
          after \in {NoIndex} \cup (0..max) :
        segments' = add_segment(segments,
                        SubtitleSegment(FreshId(segments), Len(segments) + 1,
                                        start, start + len, TRUE, speed),
                        after)
    /\ UNCHANGED editFrame
    /\ UNCHANGED <<timelineVars, auxVars>>

add_subtitle_segment == AddSegmentRoute(MaxEditSegs, EditSpeeds, EditStarts)

\* The keys the update route lets through.
allowed_fields == {"start_time", "end_time", "speaker", "text",
                   "translated_text", "emotion", "speed"}

\* Single-key bodies a client sends to the update route.
Updates(keys, values) == {[key |-> k, value |-> v] : k \in keys, v \in values}

\* PUT /api/subtitle/{project_id}/segment/{segment_id} with one of the
\* given bodies: keys outside allowed_fields are dropped, and a body left
\* empty is answered with 400.
UpdateSegmentRoute(bodies) ==
    /\ pc = "idle"
    /\ \E k \in 1..Len(segments), u \in bodies :
        /\ u.key \in allowed_fields
        /\ segments' = update_segment(segments, segments[k].id, u.key, u.value)
    /\ UNCHANGED editFrame
    /\ UNCHANGED <<timelineVars, auxVars>>

update_subtitle_segment ==
    UpdateSegmentRoute(Updates({"speed"}, EditSpeeds)
                       \cup Updates({"translated_text"}, EditTranslations))

\* DELETE /api/subtitle/{project_id}/segment/{segment_id}.
delete_subtitle_segment ==
    /\ pc = "idle"
    /\ \E k \in 1..Len(segments) :
        segments' = remove_segment(segments, segments[k].id)
    /\ UNCHANGED editFrame
    /\ UNCHANGED <<timelineVars, auxVars>>

InitEdit ==
    /\ \E n \in 1..MaxEditSegs, len \in EntryLens :
            segments = parse_srt_file(n, len)
    /\ InitCommon
    /\ AuxIdle
    /\ TimelineIdle

NextEdit ==
    \/ add_subtitle_segment
    \/ update_subtitle_segment
    \/ delete_subtitle_segment
    \/ BatchStart
    \/ SegmentBegin
    \/ SynthDownloadFailed(CancelTraces)
    \/ SynthFits(CancelTraces)
    \/ SynthTooLongShorten(CancelTraces)
    \/ SynthTooLongNoTranslation(CancelTraces)
    \/ SynthTooLongEscalate(CancelTraces)
    \/ SynthTooLongLast(CancelTraces)
    \/ SegmentStore
    \/ Summarize

SpecEdit == InitEdit /\ [][NextEdit]_vars

(***************************************************************************)
(* The segment routes alone, on longer projects.                           *)
(***************************************************************************)
MaxIndexSegs == 3

\* Bodies of the update route, among them attempts to set the index.
IndexUpdates == Updates({"speed"}, {DefaultSpeed, MaxSpeed})
                \cup Updates({"index"}, {0, MaxIndexSegs + 1})

InitIndex ==
    /\ \E n \in 1..MaxIndexSegs, len \in EntryLens :
            segments = parse_srt_file(n, len)
    /\ InitCommon
    /\ AuxIdle
    /\ TimelineIdle

NextIndex ==
    \/ AddSegmentRoute(MaxIndexSegs, {DefaultSpeed}, EditStarts)
    \/ UpdateSegmentRoute(IndexUpdates)
    \/ delete_subtitle_segment

SpecIndex == InitIndex /\ [][NextIndex]_vars

(***************************************************************************)
(* TTSService.generate_audio_with_info: one call, after the throttle.      *)
(***************************************************************************)
MaxTextLen == 4

\* Speeds a caller passes.
CallSpeeds == {DefaultSpeed, 15, MaxSpeed}

serviceFrame == <<projectVars, runVars, merged, histVars, timelineVars,
                  throttleVars, parseVars, legacyVars,
                  translateVars>>

\* int(max(len(text) * 80, 300) / speed): length of the mock audio in ms.
MockDuration(text_len, speed) == (Max(text_len * 80, 300) * 10) \div speed

MockAudio(duration) ==
    [audio_data |-> "mock", duration_ms |-> duration, trace_id |-> ""]

TtsReturn(r) ==
    /\ tts_result' = r
    /\ tts_pc' = "returned"

\* "All retries failed": the mock audio built from the text length.
FallbackResult == MockAudio(MockDuration(tts_in.text_len, tts_in.speed))

\* A call without group id or API key: mock audio.
TtsCallNoCredentials ==
    /\ tts_pc = "idle"
    /\ \E n \in 1..MaxTextLen, sp \in CallSpeeds :
        /\ tts_in' = [text_len |-> n, speed |-> sp, credentials |-> FALSE]
        /\ TtsReturn(MockAudio(MockDuration(n, sp)))
    /\ UNCHANGED <<retry, hard_failure>>
    /\ UNCHANGED serviceFrame

\* A call with credentials enters the retry loop.
TtsCallStart ==
    /\ tts_pc = "idle"
    /\ \E n \in 1..MaxTextLen, sp \in CallSpeeds :
        tts_in' = [text_len |-> n, speed |-> sp, credentials |-> TRUE]
    /\ retry' = 0
    /\ tts_pc' = "request"
    /\ UNCHANGED <<tts_result, hard_failure>>
    /\ UNCHANGED serviceFrame

\* An exception outside the retry loop (the endpoint lookup, for one):
\* the outer except clause returns one second of mock audio.
TtsSetupRaises ==
    /\ tts_pc = "idle"
    /\ \E n \in 1..MaxTextLen, sp \in CallSpeeds :
        tts_in' = [text_len |-> n, speed |-> sp, credentials |-> TRUE]
    /\ TtsReturn(MockAudio(1000))
    /\ UNCHANGED <<retry, hard_failure>>
    /\ UNCHANGED serviceFrame

\* Status 200, base_resp 0, download and trimming succeed.
TtsAudio ==
    /\ tts_pc = "request"
    /\ \E d \in TtsDurations, tr \in Traces :
        TtsReturn([audio_data |-> "real", duration_ms |-> d, trace_id |-> tr])
    /\ UNCHANGED <<tts_in, retry, hard_failure>>
    /\ UNCHANGED serviceFrame

\* Status 200, base_resp 0, the download yields nothing.
TtsDownloadFailed ==
    /\ tts_pc = "request"
    /\ \E tr \in Traces :
        TtsReturn([audio_data |-> "None", duration_ms |-> 0, trace_id |-> tr])
    /\ UNCHANGED <<tts_in, retry, hard_failure>>
    /\ UNCHANGED serviceFrame

\* A rate-limit answer: retried while range(3) lasts, then the fallback.
TtsRateLimited ==
    /\ tts_pc = "request"
    /\ IF retry < tts_max_retries - 1
       THEN /\ retry' = retry + 1
            /\ UNCHANGED <<tts_pc, tts_result, hard_failure>>
       ELSE /\ TtsReturn(FallbackResult)
            /\ hard_failure' = TRUE
            /\ retry' = retry
    /\ UNCHANGED tts_in
    /\ UNCHANGED serviceFrame

\* Any other failure of the request (HTTP status, base_resp error,
\* exception): break, then the fallback.
TtsApiError ==
    /\ tts_pc = "request"
    /\ TtsReturn(FallbackResult)
    /\ hard_failure' = TRUE
    /\ UNCHANGED <<tts_in, retry>>
    /\ UNCHANGED serviceFrame

InitSynth ==
    /\ segments = <<>>
    /\ InitCommon
    /\ TimelineIdle
    /\ ServiceIdle
    /\ ThrottleIdle
    /\ TranslateIdle
    /\ LegacyIdle
    /\ ParseIdle

NextSynth ==
    \/ TtsCallNoCredentials
    \/ TtsCallStart
    \/ TtsSetupRaises
    \/ TtsAudio
    \/ TtsDownloadFailed
    \/ TtsRateLimited
    \/ TtsApiError

SpecSynth == InitSynth /\ [][NextSynth]_vars

(***************************************************************************)
(* The request spacing at the head of generate_audio_with_info, for        *)
(* handlers that run concurrently on the event loop.                       *)
(***************************************************************************)
MaxClock == 30

throttleFrame == <<projectVars, runVars, merged, histVars, timelineVars,
                   serviceVars, parseVars, legacyVars,
                   translateVars>>

\* self._last_request_time = time.time(), and the request goes out.
StartRequest(h) ==
    /\ last_request_time' = [last_request_time EXCEPT ![h] = now]
    /\ hpc' = [hpc EXCEPT ![h] = "request"]
    /\ tooClose' = (tooClose \/
                    (lastStart # -1 /\ now - lastStart < RequestInterval))
    /\ lastStart' = now

\* The previous request of this service object is recent: sleep the rest.
ThrottleWait ==
    \E h \in Handlers :
        /\ hpc[h] = "idle"
        /\ now - last_request_time[h] < RequestInterval
        /\ wake' = [wake EXCEPT ![h] = last_request_time[h] + RequestInterval]
        /\ hpc' = [hpc EXCEPT ![h] = "sleep"]
        /\ UNCHANGED <<now, last_request_time, lastStart, tooClose>>
        /\ UNCHANGED throttleFrame

\* No recent request of this service object: no sleep.
ThrottlePass ==
    \E h \in Handlers :
        /\ hpc[h] = "idle"
        /\ now - last_request_time[h] >= RequestInterval
        /\ StartRequest(h)
        /\ UNCHANGED <<now, wake>>
        /\ UNCHANGED throttleFrame

\* The sleep is over.
ThrottleWake ==
    \E h \in Handlers :
        /\ hpc[h] = "sleep"
        /\ now >= wake[h]
        /\ StartRequest(h)
        /\ UNCHANGED <<now, wake>>
        /\ UNCHANGED throttleFrame

\* The request returns; the handler may issue its next one.
RequestDone ==
    \E h \in Handlers :
        /\ hpc[h] = "request"
        /\ hpc' = [hpc EXCEPT ![h] = "idle"]
        /\ UNCHANGED <<now, last_request_time, wake, lastStart, tooClose>>
        /\ UNCHANGED throttleFrame

Tick ==
    /\ now < MaxClock
    /\ now' = now + 1
    /\ UNCHANGED <<last_request_time, hpc, wake, lastStart, tooClose>>
    /\ UNCHANGED throttleFrame

InitThrottle ==
    /\ segments = <<>>
    /\ InitCommon
    /\ TimelineIdle
    /\ ServiceIdle
    /\ ThrottleIdle
    /\ TranslateIdle
    /\ LegacyIdle
    /\ ParseIdle

NextThrottle ==
    \/ ThrottleWait
    \/ ThrottlePass
    \/ ThrottleWake
    \/ RequestDone
    \/ Tick

SpecThrottle == InitThrottle /\ [][NextThrottle]_vars

(***************************************************************************)
(* Ingestion: SubtitleParser.parse_srt block by block, then                *)
(* SubtitleManager.parse_srt_file.  The input is the list of its           *)
(* blank-line-separated blocks; a block is the list of its lines, none of  *)
(* them blank.  A line is a sequence number, a timestamp line in the       *)
(* standard form, a bracketed timestamp line with an optional emotion      *)
(* annotation, or other text, of which the model keeps the number of       *)
(* emotion keywords it contains.  Timestamps stay within the 1200 s limit. *)
(***************************************************************************)
MaxBlocks == 2

SUPPORTED_EMOTIONS == {"happy", "sad", "angry", "fearful", "disgusted",
                       "surprised", "calm"}

\* Iteration order of EMOTION_KEYWORDS.
EmotionOrder == <<"happy", "sad", "angry", "fearful", "disgusted",
                  "surprised", "calm">>

\* The emotions whose keywords occur in the modelled texts.
KeywordEmotions == {"happy", "sad"}

NoKw == [e \in KeywordEmotions |-> 0]

Line(kind, n, emotion, kw) ==
    [kind |-> kind, n |-> n, emotion |-> emotion, kw |-> kw]

NumLine == Line("num", 7, "", NoKw)
TimeLine == Line("time", 0, "", NoKw)
XTimeLine(annotation) == Line("xtime", 0, annotation, NoKw)
TextLine(happy, sad) ==
    Line("text", 0, "", [e \in KeywordEmotions |->
                            IF e = "happy" THEN happy ELSE sad])

\* Annotations of a bracketed timestamp line ("": none).
Annotations == {"", "auto", "happy"}

BlockHeads ==
    {<<>>, <<NumLine>>, <<TimeLine>>, <<NumLine, TimeLine>>}
    \cup {<<XTimeLine(a)>> : a \in Annotations}

BlockTails ==
    {<<>>, <<TextLine(0, 0)>>, <<TextLine(1, 0)>>,
     <<TextLine(1, 0), TextLine(0, 2)>>}

Blocks == {h \o t : h \in BlockHeads, t \in BlockTails} \ {<<>>}

\* re.match(r'^\d+$', lines[0].strip())
IsNumber(line) == line.kind = "num"

\* One of the three timestamp patterns matches the line.
IsTimeLine(line) == line.kind \in {"time", "xtime"}

\* line_index (1-based): the line at which the timestamp is looked for.
LineIndex(lines) == IF IsNumber(lines[1]) THEN 2 ELSE 1

\* lines[line_index + 1:], as the keyword counts of the lines joined.
TextOf(lines) ==
    LET li == LineIndex(lines)
    IN  [j \in 1..(Len(lines) - li) |-> lines[li + j].kw]

\* The record appended for a block at position k of subtitle_blocks.
RecordOf(lines, k) ==
    LET time_line == lines[LineIndex(lines)]
    IN  [index |-> IF IsNumber(lines[1]) THEN lines[1].n ELSE k,
         text |-> TextOf(lines),
         emotion |-> IF time_line.kind = "xtime" /\ time_line.emotion # ""
                     THEN time_line.emotion ELSE "neutral"]

parseFrame == <<projectVars, runVars, merged, histVars, timelineVars,
                serviceVars, throttleVars, legacyVars, translateVars>>

NextBlock ==
    /\ ppc = "blocks"
    /\ pk <= Len(content)
    /\ pk' = pk + 1
    /\ UNCHANGED <<content, ppc, ingested>>
    /\ UNCHANGED parseFrame

\* len(lines) < 2: continue.
ParseSkipShort ==
    /\ NextBlock
    /\ Len(content[pk]) < 2
    /\ parsed' = parsed

\* Variant: a block without timestamp ends the parse.
ParseSkipNoTimeAborts ==
    /\ ppc = "blocks"
    /\ pk <= Len(content)
    /\ Len(content[pk]) >= 2
    /\ ~IsTimeLine(content[pk][LineIndex(content[pk])])
    /\ ppc' = "parsed"
    /\ UNCHANGED <<content, pk, parsed, ingested>>
    /\ UNCHANGED parseFrame

\* No timestamp pattern matches the line: continue.
ParseSkipNoTime ==
    /\ NextBlock
    /\ Len(content[pk]) >= 2
    /\ ~IsTimeLine(content[pk][LineIndex(content[pk])])
    /\ parsed' = parsed

\* The text after the timestamp line is empty: nothing is appended.
ParseSkipNoText ==
    /\ NextBlock
    /\ Len(content[pk]) >= 2
    /\ IsTimeLine(content[pk][LineIndex(content[pk])])
    /\ TextOf(content[pk]) = <<>>
    /\ parsed' = parsed

ParseAppend ==
    /\ NextBlock
    /\ Len(content[pk]) >= 2
    /\ IsTimeLine(content[pk][LineIndex(content[pk])])
    /\ TextOf(content[pk]) # <<>>
    /\ parsed' = Append(parsed, RecordOf(content[pk], pk))

\* return segments
ParseReturn ==
    /\ ppc = "blocks"
    /\ pk > Len(content)
    /\ ppc' = "parsed"
    /\ UNCHANGED <<content, pk, parsed, ingested>>
    /\ UNCHANGED parseFrame

\* text.count(keyword) summed over the keywords of one emotion.
RECURSIVE Score(_, _)
Score(e, text) ==
    IF text = <<>> \/ e \notin KeywordEmotions THEN 0
    ELSE Head(text)[e] + Score(e, Tail(text))

\* EmotionDetector.detect_emotion: the emotion of greatest score, the first
\* in dictionary order among equals; "auto" when nothing scores.
detect_emotion(text) ==
    LET scored == {j \in 1..Len(EmotionOrder) : Score(EmotionOrder[j], text) > 0}
        best == {j \in scored :
                    \A m \in scored : Score(EmotionOrder[m], text)
                                        <= Score(EmotionOrder[j], text)}
    IN  IF scored = {} THEN "auto"
        ELSE EmotionOrder[CHOOSE j \in best : \A m \in best : j <= m]

\* SubtitleSegment.__init__: an emotion outside the supported ones is "auto".
SegmentEmotion(emotion) ==
    IF emotion \in SUPPORTED_EMOTIONS THEN emotion ELSE "auto"

\* parse_srt_file: detection runs only for a record whose emotion is "auto".
IngestEmotion(rec) ==
    SegmentEmotion(IF rec.emotion = "auto" THEN detect_emotion(rec.text)
                   ELSE rec.emotion)

\* parse_srt_file on an input without records: failure, no project.
IngestReject ==
    /\ ppc = "parsed"
    /\ parsed = <<>>
    /\ ppc' = "rejected"
    /\ UNCHANGED <<content, pk, parsed, ingested>>
    /\ UNCHANGED parseFrame

\* parse_srt_file: one segment per record, numbered from 1.
IngestCreate ==
    /\ ppc = "parsed"
    /\ parsed # <<>>
    /\ ingested' = [k \in 1..Len(parsed) |->
                        [index |-> k, emotion |-> IngestEmotion(parsed[k])]]
    /\ ppc' = "ingested"
    /\ UNCHANGED <<content, pk, parsed>>
    /\ UNCHANGED parseFrame

InitParse ==
    /\ segments = <<>>
    /\ InitCommon
    /\ TimelineIdle
    /\ ServiceIdle
    /\ ThrottleIdle
    /\ TranslateIdle
    /\ LegacyIdle
    /\ content \in SeqsUpTo(Blocks, MaxBlocks)
    /\ ppc = "blocks"
    /\ pk = 1
    /\ parsed = <<>>
    /\ ingested = <<>>

NextParse ==
    \/ ParseSkipShort
    \/ ParseSkipNoTime
    \/ ParseSkipNoText
    \/ ParseAppend
    \/ ParseReturn
    \/ IngestReject
    \/ IngestCreate

SpecParse == InitParse /\ [][NextParse]_vars

(***************************************************************************)
(* The one-shot pipeline: AudioProcessor.process_subtitle_file and the     *)
(* fitter it calls for each record, _generate_audio_with_retry.  The       *)
(* records parse_srt returned are given by the lengths of their slots.     *)
(* Every action of the fitter is one pass through its loop: one synthesis  *)
(* call and the branch that handles its result.                            *)
(***************************************************************************)
MaxLegacySegs == 2

\* Slot lengths of the records, in ms.
LegacySlots == {500, 1000}

\* Trimmed durations a synthesis call can report with its audio, in ms.
LegacyDurations == {800, 1660, 2500}

legacyFrame == <<projectVars, runVars, merged, histVars, timelineVars,
                 serviceVars, throttleVars, parseVars, translateVars>>

\* `raise` inside the try of process_subtitle_file: logged and re-raised.
ProcessRaises ==
    /\ lg_result' = [outcome |-> "raised", segments_count |-> 0]
    /\ lg_pc' = "done"

\* parse_srt returned no record: ValueError.
ProcessNoSegments ==
    /\ lg_pc = "start"
    /\ lg_segments = <<>>
    /\ ProcessRaises
    /\ UNCHANGED <<lg_segments, lg_t_srt_ms, lg_attempt, lg_speed, lg_return,
                   lg_calls>>
    /\ UNCHANGED legacyFrame

\* First pass of the loop over the records: the fitter is called.
ProcessFirstSegment ==
    /\ lg_pc = "start"
    /\ lg_segments # <<>>
    /\ lg_t_srt_ms' = lg_segments[1]
    /\ lg_attempt' = 0
    /\ lg_speed' = DefaultSpeed
    /\ lg_calls' = 0
    /\ lg_pc' = "fit"
    /\ UNCHANGED <<lg_segments, lg_return, lg_result>>
    /\ UNCHANGED legacyFrame

\* `return` of the fitter.
LegacyReturn(audio, duration, speed) ==
    /\ lg_return' = [audio |-> audio, duration |-> duration, speed |-> speed]
    /\ lg_pc' = "fitted"
    /\ UNCHANGED <<lg_attempt, lg_speed>>

\* The synthesis call returned audio_data None with duration_ms 0 (failed
\* download): 0 <= t_srt_ms, so None is returned as the fitting audio.
LegacySynthNoAudio ==
    /\ lg_pc = "fit"
    /\ 0 <= lg_t_srt_ms
    /\ lg_calls' = lg_calls + 1
    /\ LegacyReturn("none", 0, lg_speed)
    /\ UNCHANGED <<lg_segments, lg_t_srt_ms, lg_result>>
    /\ UNCHANGED legacyFrame

\* t_tts_ms <= t_srt_ms: the audio is returned.
LegacySynthFits ==
    /\ lg_pc = "fit"
    /\ \E d \in LegacyDurations :
        /\ d <= lg_t_srt_ms
        /\ LegacyReturn("real", d, lg_speed)
    /\ lg_calls' = lg_calls + 1
    /\ UNCHANGED <<lg_segments, lg_t_srt_ms, lg_result>>
    /\ UNCHANGED legacyFrame

\* min(t_tts_ms / t_srt_ms + add/10, 2.0) >= 2.0
AtMaxSpeed(t_tts, t_srt, add) == 10 * t_tts + add * t_srt >= MaxSpeed * t_srt

\* Too long, attempts left: the ratio (plus 0.2 on the second attempt)
\* becomes the speed; at 2.0 the first attempt goes on with speed 2.0 and
\* the second gives up with the silence placeholder.
LegacySynthTooLongRetry ==
    /\ lg_pc = "fit"
    /\ lg_attempt < legacy_max_retries - 1
    /\ \E d \in LegacyDurations :
        /\ d > lg_t_srt_ms
        /\ LET add == IF lg_attempt = 1 THEN SpeedStep ELSE 0
           IN  IF AtMaxSpeed(d, lg_t_srt_ms, add)
               THEN IF lg_attempt = 0
                    THEN /\ lg_speed' = MaxSpeed
                         /\ lg_attempt' = lg_attempt + 1
                         /\ UNCHANGED <<lg_pc, lg_return>>
                    ELSE /\ lg_return' = [audio |-> "silence", duration |-> 0,
                                          speed |-> MaxSpeed]
                         /\ lg_pc' = "fitted"
                         /\ UNCHANGED <<lg_attempt, lg_speed>>
               ELSE /\ lg_speed' = SpeedFromRatio(d, lg_t_srt_ms, add)
                    /\ lg_attempt' = lg_attempt + 1
                    /\ UNCHANGED <<lg_pc, lg_return>>
    /\ lg_calls' = lg_calls + 1
    /\ UNCHANGED <<lg_segments, lg_t_srt_ms, lg_result>>
    /\ UNCHANGED legacyFrame

\* Too long on the last attempt: the silence placeholder.
LegacySynthTooLongLast ==
    /\ lg_pc = "fit"
    /\ lg_attempt >= legacy_max_retries - 1
    /\ \E d \in LegacyDurations : d > lg_t_srt_ms
    /\ lg_calls' = lg_calls + 1
    /\ LegacyReturn("silence", 0, lg_speed)
    /\ UNCHANGED <<lg_segments, lg_t_srt_ms, lg_result>>
    /\ UNCHANGED legacyFrame

\* `final_audio_data, used_speed = await self._generate_audio_with_retry(..)`:
\* the returned tuple has more values than the assignment has targets, so
\* the assignment raises ValueError and the statements after it (descriptor
\* list, timeline, success result) are not reached.
ProcessUnpackRaises ==
    /\ lg_pc = "fitted"
    /\ ReturnArity # UnpackTargets
    /\ ProcessRaises
    /\ UNCHANGED <<lg_segments, lg_t_srt_ms, lg_attempt, lg_speed, lg_return,
                   lg_calls>>
    /\ UNCHANGED legacyFrame

InitLegacy ==
    /\ segments = <<>>
    /\ InitCommon
    /\ TimelineIdle
    /\ ServiceIdle
    /\ ThrottleIdle
    /\ TranslateIdle
    /\ ParseIdle
    /\ lg_pc = "start"
    /\ lg_segments \in SeqsUpTo(LegacySlots, MaxLegacySegs)
    /\ lg_t_srt_ms = 0
    /\ lg_attempt = 0
    /\ lg_speed = DefaultSpeed
    /\ lg_return = NoReturn
    /\ lg_calls = 0
    /\ lg_result = NoOutcome

NextLegacy ==
    \/ ProcessNoSegments
    \/ ProcessFirstSegment
    \/ LegacySynthNoAudio
    \/ LegacySynthFits
    \/ LegacySynthTooLongRetry
    \/ LegacySynthTooLongLast
    \/ ProcessUnpackRaises

SpecLegacy == InitLegacy /\ [][NextLegacy]_vars

(***************************************************************************)
(* The handlers of main.py, which share the module's own                   *)
(* task_cancellation_flags dict: the batch run keyed by RunId (its         *)
(* per-segment body is the fitting loop modelled above),                   *)
(* POST /api/interrupt/{client_id}, and batch_translate_project called     *)
(* with the same clientId for another project.                             *)
(***************************************************************************)
MaxOtherSegs == 1

MainKinds == {kd \in SegKinds : kd.speed = DefaultSpeed /\ kd.ok /\ kd.trans = 0}

mainFrame == <<timelineVars, serviceVars, throttleVars, parseVars, legacyVars>>

\* Entry of batch_generate_tts_for_project up to the segment loop: the flag
\* of the run's identifier is cleared.
MainBatchStart ==
    /\ pc = "idle"
    /\ runFlags' = "main"
    /\ flags' = FlagSet("main", RunId, FALSE)
    /\ pc' = "loop"
    /\ i' = 0
    /\ stats' = NoStats
    /\ updated_segments' = <<>>
    /\ result' = NoResult
    /\ initSegments' = segments
    /\ UNCHANGED <<segments, disk, coreRef, wsRef, attempt, t_srt_ms,
                   current_speed, translation_optimization_count, final,
                   merged, calls, shortens, firstTry, lastTry, lastCall,
                   synthFor, allFirstFit, allSingle, pending, seenAt>>
    /\ UNCHANGED <<mainFrame, translateVars>>

\* interrupt_task of main.py: the flag is set; running_tasks is never
\* filled, so no task is cancelled.
main_interrupt_task ==
    \E id \in Ids :
        /\ pc # "done"
        /\ flags' = FlagSet("main", id, TRUE)
        /\ pending' = (pending \/ (id = RunId /\ IterationsLeft))
        /\ UNCHANGED <<segments, disk, coreRef, wsRef, runVars, merged,
                       calls, shortens, firstTry, lastTry, lastCall, synthFor,
                       allFirstFit, allSingle, initSegments, seenAt>>
        /\ UNCHANGED <<mainFrame, translateVars>>

translateFrame == <<segments, disk, coreRef, wsRef, runVars, merged, histVars,
                    mainFrame>>

\* Entry of batch_translate_project up to its segment loop: the flag of its
\* clientId is cleared.
TranslateStart ==
    /\ x_pc = "idle"
    /\ \E n \in 1..MaxOtherSegs : x_total' = n
    /\ flags' = FlagSet("main", RunId, FALSE)
    /\ x_pc' = "loop"
    /\ x_i' = 1
    /\ x_ok' = 0
    /\ UNCHANGED x_result
    /\ UNCHANGED translateFrame

\* Top of an iteration, flag set: progress is saved, interrupted response.
TranslateInterrupted ==
    /\ x_pc = "loop"
    /\ x_i <= x_total
    /\ FlagGet("main", RunId)
    /\ x_result' = "interrupted"
    /\ x_pc' = "done"
    /\ UNCHANGED <<flags, x_total, x_i, x_ok>>
    /\ UNCHANGED translateFrame

\* Top of an iteration, flag clear: the segment of the other project is
\* translated, or the translation fails.
TranslateSegment ==
    /\ x_pc = "loop"
    /\ x_i <= x_total
    /\ ~FlagGet("main", RunId)
    /\ \E translated \in BOOLEAN :
        x_ok' = IF translated THEN x_ok + 1 ELSE x_ok
    /\ x_i' = x_i + 1
    /\ UNCHANGED <<flags, x_pc, x_total, x_result>>
    /\ UNCHANGED translateFrame

\* After the loop: the project is saved and the summary returned.
TranslateDone ==
    /\ x_pc = "loop"
    /\ x_i > x_total
    /\ x_result' = "completed"
    /\ x_pc' = "done"
    /\ UNCHANGED <<flags, x_total, x_i, x_ok>>
    /\ UNCHANGED translateFrame

InitMain ==
    /\ \E kinds \in SeqsUpTo(MainKinds, MaxSegs) :
            segments = ProjectOf(kinds)
    /\ InitCommon
    /\ AuxIdle
    /\ TimelineIdle

NextMain ==
    \/ MainBatchStart
    \/ main_interrupt_task
    \/ TranslateStart
    \/ TranslateInterrupted
    \/ TranslateSegment
    \/ TranslateDone
    \/ Interrupted
    \/ SegmentBegin
    \/ SynthDownloadFailed(CancelTraces)
    \/ SynthFits(CancelTraces)
    \/ SynthTooLongNoTranslation(CancelTraces)
    \/ SynthTooLongLast(CancelTraces)
    \/ SegmentStore
    \/ Summarize

SpecMain == InitMain /\ [][NextMain]_vars

(***************************************************************************)
(* Properties.                                                             *)
(***************************************************************************)
Segs == 1..Len(segments)

\* Greatest end time among the segments with well-formed timestamps.
LastEnd(segs) ==
    LET ends == {segs[k].end_time : k \in {j \in 1..Len(segs) : segs[j].time_ok}}
    IN  IF ends = {} THEN 0 ELSE CHOOSE e \in ends : \A f \in ends : f <= e

\* C1: when the retry loop of a segment ends, it has selected either real
\* audio no longer than the slot, or the silence placeholder after a
\* too-long attempt at speed 2.0 or after a failed download; it never ends
\* with nothing selected while the speed is below 2.0.
C1_LoopEndsFittedOrSilent ==
    pc = "store" =>
        \/ final.audio = "real" /\ final.duration <= t_srt_ms
        \/ /\ final.audio = "silence"
           /\ \/ lastTry = "fail"
              \/ lastTry = "long" /\ current_speed >= MaxSpeed

\* C3: a merge of a project whose segments all ended as real audio or as
\* the silence placeholder, at least one of them real, yields a track as
\* long as the greatest end time of the project's segments.
C3_MergedSpansTimeline ==
    (/\ pc = "done"
     /\ merged.status # 0
     /\ \A k \in Segs : segments[k].audio_data \in {"real", "silence"}
     /\ \E k \in Segs : segments[k].audio_data = "real")
    => (merged.status = 200 /\ merged.track_ms = LastEnd(segments))

\* C6: every batch run that reaches its end returns the structured summary
\* (status 200 with the counts), also for a project without segments.
C6_AlwaysSummary ==
    pc = "done" => result.status = 200

\* C7: a segment's audio_duration is always a number, and a segment whose
\* audio is the silence placeholder records exactly its slot length.
C7_SilenceDuration ==
    \A k \in Segs :
        /\ segments[k].audio_duration \in Int
        /\ (segments[k].audio_data = "silence" =>
                segments[k].audio_duration = TSrtMs(segments[k]))

C7_Witness ==
    \E k \in Segs : segments[k].audio_data = "silence" /\
                    segments[k].audio_duration = 1000

C9_AllFitFirstTime ==
    (pc = "done" /\ result.status = 200 /\ allFirstFit) =>
        /\ allSingle
        /\ result.statistics.normal_segments = Len(segments)
        /\ result.statistics.failed_silent_segments = 0
        /\ result.statistics.speed_optimized_segments = 0
        /\ result.statistics.translation_optimized_segments = 0
        /\ result.statistics.successful_segments = Len(segments)
        /\ result.statistics.failed_segments = 0
        /\ \A k \in Segs : segments[k].speed = DefaultSpeed /\
                           segments[k].audio_data = "real"

C9_Witness ==
    /\ pc = "done"
    /\ result.status = 200
    /\ allFirstFit
    /\ Len(segments) >= 2
    /\ \E k \in Segs : initSegments[k].translated_text > 0

\* C4: an interrupted run returns success with interrupted set; it issued no
\* synthesis call for the segment at which the flag was seen or a later one;
\* the project is saved; its updated segments are, in order, the segments
\* before that one whose processing completed, with the values stored on
\* them; the segments from that one on are as the run found them.
StoredBefore(n) == {k \in 1..n : initSegments[k].time_ok}

C4_InterruptKeepsFinishedWork ==
    (pc = "done" /\ result.status = 200 /\ result.interrupted) =>
        /\ result.success
        /\ synthFor < seenAt
        /\ disk = ToFullDict(segments)
        /\ {result.updated_segments[j].segment_id :
                j \in 1..Len(result.updated_segments)} = StoredBefore(seenAt)
        /\ Len(result.updated_segments) = Cardinality(StoredBefore(seenAt))
        /\ \A j \in 1..Len(result.updated_segments) :
            LET e == result.updated_segments[j]
                sg == segments[e.segment_id]
            IN  /\ sg.audio_duration = e.duration_ms
                /\ sg.speed = e.final_speed
                /\ sg.trace_id = e.trace_id
                /\ sg.audio_data # "none" \/ e.duration_ms = 0
        /\ \A k \in Segs : k > seenAt => segments[k] = initSegments[k]

C4_Witness ==
    /\ pc = "done"
    /\ result.status = 200
    /\ result.interrupted
    /\ seenAt >= 1
    /\ seenAt < Len(segments)
    /\ Len(result.updated_segments) >= 1

\* C5: an interrupt requested through the interrupt endpoint for the run's
\* identifier while the run still has an iteration to start is observed at
\* the run's next per-segment check, which then returns interrupted.
C5_InterruptObservedAtNextCheck ==
    [][(pending /\ pc = "loop" /\ i < Len(segments) /\
        (pc' # "loop" \/ i' # i))
       => (pc' = "done" /\ result'.status = 200 /\ result'.interrupted)]_vars

\* C2: for descriptors sorted by start, each within start <= end and
\* starting no earlier than the previous end, the assembled track is as long
\* as the greatest end time.
SortedNonOverlapping(ds) ==
    /\ \A k \in 1..Len(ds) : ds[k].start_time <= ds[k].end_time
    /\ \A k \in 1..(Len(ds) - 1) : ds[k].end_time <= ds[k + 1].start_time

MaxEndMs(ds) ==
    CHOOSE e \in {ds[k].end_time : k \in 1..Len(ds)} :
        \A k \in 1..Len(ds) : ds[k].end_time <= e

C2_TrackLengthIsLastEnd ==
    (tpc = "exported" /\ audio_segments # <<>> /\
     SortedNonOverlapping(audio_segments))
    => TrackLen(final_audio) = MaxEndMs(audio_segments)

C2_Witness ==
    /\ tpc = "exported"
    /\ Len(audio_segments) >= 2
    /\ SortedNonOverlapping(audio_segments)
    /\ audio_segments[1].start_time > 0
    /\ audio_segments[1].audio = "real"
    /\ audio_segments[1].len > audio_segments[1].end_time
                                 - audio_segments[1].start_time
    /\ audio_segments[2].audio = "real"
    /\ audio_segments[2].len < audio_segments[2].end_time
                                 - audio_segments[2].start_time

\* C10: the speed of every segment of a project reached through ingestion,
\* the segment routes and batch runs lies within [1.0, 2.0].
C10_SpeedWithinRange ==
    \A k \in Segs : segments[k].speed \in DefaultSpeed..MaxSpeed

(***************************************************************************)
(* Properties of the timeline assembly, piece by piece.                    *)
(***************************************************************************)
\* Positions in start order already handled by the loop.
Placed == 1..(tk - 1)

\* The cursor in front of the k-th descriptor in start order.
CursorBefore(k) == IF k = 1 THEN 0 ELSE sorted_segments[k - 1].end_time

\* The pieces of the track that belong to descriptor k, in track order.
PiecesOf(k) == SelectSeq(final_audio, LAMBDA p : p.of = k)

SlotOf(k) == sorted_segments[k].end_time - sorted_segments[k].start_time

\* Milliseconds that descriptor k put on the track, its gap aside.
Contribution(k) ==
    TrackLen(SelectSeq(final_audio, LAMBDA p : p.of = k /\ p.kind # "gap"))

\* C11: a descriptor that starts after the cursor is preceded by exactly
\* start - cursor ms of silence, placed before anything else of that
\* descriptor; a descriptor that starts at the cursor gets no such silence.
C11_GapFilling ==
    tpc \in {"place", "exported"} =>
        \A k \in Placed :
            LET start == sorted_segments[k].start_time
                gaps == SelectSeq(PiecesOf(k), LAMBDA p : p.kind = "gap")
            IN  /\ start > CursorBefore(k) =>
                    /\ Len(gaps) = 1
                    /\ PiecesOf(k)[1].kind = "gap"
                    /\ PiecesOf(k)[1].ms = start - CursorBefore(k)
                /\ start = CursorBefore(k) => gaps = <<>>

C11_Witness ==
    /\ tpc = "exported"
    /\ Len(sorted_segments) = 2
    /\ sorted_segments[1].audio = "real"
    /\ sorted_segments[2].audio = "real"
    /\ sorted_segments[1].start_time = 0
    /\ sorted_segments[1].end_time = 1000
    /\ sorted_segments[2].start_time = 1500
    /\ sorted_segments[2].end_time = 2000
    /\ PiecesOf(2)[1] = Piece("gap", 500, 2)

\* C12: every real clip placed in a slot of non-negative length puts
\* exactly end - start ms on the track: a clip longer than the slot is cut
\* to the slot, a shorter one is followed by slot - clip ms of silence.
C12_SlotFitting ==
    tpc \in {"place", "exported"} =>
        \A k \in Placed :
            sorted_segments[k].audio = "real" =>
                LET clip == sorted_segments[k].len
                    body == SelectSeq(PiecesOf(k), LAMBDA p : p.kind # "gap")
                IN  /\ Contribution(k) = SlotOf(k)
                    /\ clip > SlotOf(k) /\ SlotOf(k) > 0 =>
                            body = <<Piece("clip", SlotOf(k), k)>>
                    /\ clip < SlotOf(k) =>
                            body = <<Piece("clip", clip, k),
                                     Piece("pad", SlotOf(k) - clip, k)>>
                    /\ clip = SlotOf(k) => body = <<Piece("clip", clip, k)>>

C12_Witness ==
    /\ tpc = "exported"
    /\ Len(sorted_segments) = 2
    /\ sorted_segments[1].audio = "real"
    /\ sorted_segments[1].len > SlotOf(1)
    /\ SlotOf(1) > 0
    /\ sorted_segments[2].audio = "real"
    /\ sorted_segments[2].len < SlotOf(2)
    /\ Contribution(1) = SlotOf(1)
    /\ Contribution(2) = SlotOf(2)

\* C13: a descriptor whose bytes do not decode fills its slot with silence
\* of the slot length, the assembly goes on to the export, and the track is
\* piece for piece the one obtained when every such descriptor is replaced
\* by a clip of exactly its slot length.
AsExactClip(d) ==
    IF d.audio = "bad"
    THEN [d EXCEPT !.audio = "real", !.len = d.end_time - d.start_time]
    ELSE d

ErrorAsClip(tr) ==
    [j \in 1..Len(tr) |->
        IF tr[j].kind = "error" THEN [tr[j] EXCEPT !.kind = "clip"] ELSE tr[j]]

C13_DecodeErrorIsFullSlotSilence ==
    tpc = "exported" =>
        /\ \A k \in 1..Len(sorted_segments) :
            sorted_segments[k].audio = "bad" =>
                /\ Contribution(k) = SlotOf(k)
                /\ \A j \in 1..Len(PiecesOf(k)) :
                        PiecesOf(k)[j].kind \in {"gap", "error"}
        /\ ErrorAsClip(final_audio) =
                BuildTimelineAudio([j \in 1..Len(audio_segments) |->
                                        AsExactClip(audio_segments[j])])

C13_Witness ==
    /\ tpc = "exported"
    /\ Len(sorted_segments) = 2
    /\ sorted_segments[1].audio = "bad"
    /\ SlotOf(1) > 0
    /\ sorted_segments[2].audio = "real"
    /\ sorted_segments[2].start_time > sorted_segments[1].end_time
    /\ Contribution(2) = SlotOf(2)

\* C14: for every descriptor list, sorted or not, overlapping or not, the
\* exported track is exactly as long as the end of the last descriptor in
\* start order.
C14_TrackEndsAtFinalDescriptor ==
    (tpc = "exported" /\ sorted_segments # <<>>) =>
        TrackLen(final_audio) = sorted_segments[Len(sorted_segments)].end_time

\* C15: a call made with credentials whose remote request failed hard (a
\* failure other than a rate limit, or rate-limit retries used up) returns
\* audio_data = None.
C15_HardFailureReturnsNull ==
    (tts_pc = "returned" /\ tts_in.credentials /\ hard_failure) =>
        tts_result.audio_data = "None"

\* C16: any two synthesis requests of the process, whichever handlers they
\* belong to, start at least the throttle interval apart.
C16_RequestsSpacedProcessWide == ~tooClose

\* C17: while a segment is fitted the shorten operation is called at most
\* once, whatever it returns, and never for a segment without translation.
C17_ShortenAtMostOnce ==
    /\ shortens <= 1
    /\ (pc \in {"fit", "store"} /\ initSegments[i + 1].translated_text = 0)
            => shortens = 0

C17_Witness ==
    /\ pc = "store"
    /\ initSegments[i + 1].translated_text > 0
    /\ shortens = 1
    /\ calls = max_retries
    /\ final.audio = "silence"

\* C18: after any sequence of add (append or insert-after), remove and
\* update requests, the index values read in list order are 1, 2, ..., N.
C18_IndexesAreOneToN ==
    \A k \in Segs : segments[k].index = k

C18_Witness ==
    /\ Len(segments) = MaxIndexSegs
    /\ segments[1].id > segments[2].id
    /\ segments[2].speed = MaxSpeed
    /\ segments[Len(segments)].start_time = 0

\* C19: a segment ingested from a block without emotion annotation carries
\* the emotion detected from its text ("auto" only when no keyword occurs).
C19_UnannotatedEmotionDetected ==
    ppc = "ingested" =>
        \A k \in 1..Len(parsed) :
            parsed[k].emotion = "neutral" =>
                ingested[k].emotion = detect_emotion(parsed[k].text)

\* C20: parse returns, in input order, exactly one record for each block
\* whose timestamp line stands where the format has it (first, or second
\* after a sequence number) and is followed by text; every other block is
\* skipped and the parse goes on; the record of a block is determined by
\* the block and its position in the input, whatever the other blocks are.
TimestampAt(lines) ==
    IF lines[1].kind \in {"time", "xtime"} THEN 1
    ELSE IF lines[1].kind = "num" /\ Len(lines) >= 2
            /\ lines[2].kind \in {"time", "xtime"} THEN 2
    ELSE 0

GoodBlock(lines) == TimestampAt(lines) > 0 /\ Len(lines) > TimestampAt(lines)

RECURSIVE RecordsOf(_, _)
RecordsOf(blocks, upto) ==
    IF upto = 0 THEN <<>>
    ELSE IF GoodBlock(blocks[upto])
    THEN Append(RecordsOf(blocks, upto - 1),
                [index |-> IF blocks[upto][1].kind = "num"
                           THEN blocks[upto][1].n ELSE upto,
                 text |-> [j \in 1..(Len(blocks[upto])
                                        - TimestampAt(blocks[upto])) |->
                            blocks[upto][TimestampAt(blocks[upto]) + j].kw],
                 emotion |-> IF blocks[upto][TimestampAt(blocks[upto])].emotion
                                    = ""
                             THEN "neutral"
                             ELSE blocks[upto][TimestampAt(blocks[upto])]
                                        .emotion])
    ELSE RecordsOf(blocks, upto - 1)

RECURSIVE YieldingPositions(_, _)
YieldingPositions(blocks, upto) ==
    IF upto = 0 THEN <<>>
    ELSE IF GoodBlock(blocks[upto])
    THEN Append(YieldingPositions(blocks, upto - 1), upto)
    ELSE YieldingPositions(blocks, upto - 1)

\* C28: the record of a block without sequence number has as index its
\* 1-based position among the records yielded, so that skipped blocks
\* before it leave no gap.
C28_DefaultIndexCountsYielded ==
    ppc = "parsed" =>
        \A j \in 1..Len(parsed) :
            ~IsNumber(content[YieldingPositions(content, Len(content))[j]][1])
                => parsed[j].index = j

\* A pass through the retry loop: one synthesis call for the current segment.
SynthesisCall == pc = "fit" /\ calls' = calls + 1

\* C22: when an attempt is too long and shortening is unavailable (no
\* translation) or already used, the speed of the next attempt is the one
\* the number of the failed attempt gives: ratio, ratio + 0.2, ratio + 0.4,
\* clamped to 2.0 and rounded to one decimal.
C22_SpeedByAttemptNumber ==
    [][(/\ SynthesisCall
        /\ lastTry' = "long"
        /\ pc' = "fit"
        /\ ~IsUsingTranslation \/ translation_optimization_count >= 1)
        => current_speed' = EscalatedSpeed(attempt, lastCall'.dur, t_srt_ms)]_vars

\* C23: within the fitting run of a segment every synthesis call is given a
\* speed at least that of the call before it.
C23_SpeedNeverDecreases ==
    [][(SynthesisCall /\ calls > 0) => lastCall'.speed >= lastCall.speed]_vars

\* C24: a translation changes only by adoption of a strictly shorter shorten
\* result; the call after an adoption is given the new text and the speed
\* of the call before; a shorten result that is empty or not shorter leaves
\* the translation as it was.
C24_TranslationChangesOnlyByAdoption ==
    [][/\ \A k \in 1..Len(segments) :
            segments'[k].translated_text # segments[k].translated_text =>
                /\ SynthesisCall
                /\ k = i + 1
                /\ shortens' = shortens + 1
                /\ lastCall'.adopted
                /\ segments'[k].translated_text > 0
                /\ segments'[k].translated_text < segments[k].translated_text
       /\ (SynthesisCall /\ lastCall.adopted) =>
                /\ lastCall'.text = Seg.translated_text
                /\ lastCall'.text < lastCall.text
                /\ lastCall'.speed = lastCall.speed
       /\ (SynthesisCall /\ shortens' = shortens + 1 /\ ~lastCall'.adopted) =>
                segments' = segments]_vars

C24_Witness ==
    /\ pc = "store"
    /\ shortens = 1
    /\ calls >= 2
    /\ lastCall.text > 0
    /\ lastCall.text < initSegments[i + 1].translated_text
    /\ lastCall.text = Seg.translated_text
    /\ lastCall.speed = initSegments[i + 1].speed
    /\ final.audio = "real"

\* C25: after a call that returned no audio the next call is given the same
\* text and the same speed; a segment whose four calls all returned no audio
\* ends with the silence marker, the slot length as duration, and in the
\* failed-silent bucket.
C25_DownloadFailureRetriesSame ==
    [][/\ (SynthesisCall /\ lastTry = "fail") =>
                /\ lastCall'.text = lastCall.text
                /\ lastCall'.speed = lastCall.speed
       /\ (pc = "store" /\ lastCall.fails = max_retries) =>
                /\ final.audio = "silence"
                /\ final.duration = t_srt_ms
                /\ segments'[i + 1].audio_data = "silence"
                /\ segments'[i + 1].audio_duration = t_srt_ms
                /\ stats'.failed_silent = Append(stats.failed_silent, i + 1)]_vars

C25_Witness ==
    /\ pc = "store"
    /\ calls = max_retries
    /\ lastCall.fails = max_retries
    /\ final.audio = "silence"

\* C26: a segment reported as translation-optimized has had a shortened
\* translation adopted and ended with real audio.
C26_TranslationOptimizedMeansAdopted ==
    \A k \in 1..Len(stats.translation_optimized) :
        LET n == stats.translation_optimized[k]
        IN  /\ segments[n].translated_text < initSegments[n].translated_text
            /\ segments[n].audio_data = "real"

\* C27: a segment that ends with the silence marker because its audio was
\* still too long at speed 2.0 has an empty trace id.
C27_SilenceAfterMaxSpeedHasNoTrace ==
    (/\ pc = "store"
     /\ final.audio = "silence"
     /\ lastTry = "long"
     /\ current_speed >= MaxSpeed) => final.trace = ""

\* C21: process_subtitle_file fails towards its caller exactly when parsing
\* yielded no record; with at least one record it returns a success result
\* whose segments_count is the number of records.
C21_FailsOnlyWithoutSegments ==
    lg_pc = "done" =>
        /\ lg_result.outcome = "raised" <=> lg_segments = <<>>
        /\ lg_segments # <<>> =>
                lg_result = [outcome |-> "success",
                             segments_count |-> Len(lg_segments)]

\* C30: for a slot of positive length the fitter returns after at most 3
\* synthesis calls, and returns either audio whose reported duration is at
\* most the slot or the silence placeholder.
C30_LegacyFitterFitsOrSilence ==
    (lg_pc = "fitted" /\ lg_t_srt_ms > 0) =>
        /\ lg_calls <= legacy_max_retries
        /\ \/ lg_return.audio = "silence"
           \/ lg_return.audio = "real" /\ lg_return.duration <= lg_t_srt_ms

\* C29: an interrupt issued for the run's identifier while the run has an
\* iteration left is observed at the run's next per-segment check, also
\* when another batch operation with the same identifier starts in between.
C29_InterruptSurvivesOtherBatchStart ==
    [][(/\ pending
        /\ runFlags = "main"
        /\ pc = "loop"
        /\ i < Len(segments)
        /\ pc' # "loop" \/ i' # i)
       => (pc' = "done" /\ result'.status = 200 /\ result'.interrupted)]_vars

====
